---- MODULE Spec2Model ----
(***************************************************************************)
(* Model of amltf_core.config (AMLTFConfig, get_config) and                *)
(* amltf_core.firebase_state (FirebaseStateManager).                       *)
(*                                                                         *)
(* State: the process environment, the part of the filesystem the code     *)
(* looks at, the module-level singleton _config_instance, the AMLTFConfig  *)
(* objects that were handed out, firebase_admin._apps, the emitted log      *)
(* records and a record of the step that has just been taken.              *)
(***************************************************************************)
EXTENDS Integers, Sequences, FiniteSets, TLC

VARIABLES env, fs, _config_instance, objects, _apps, managers, log, calls,
          changes, last

vars == <<env, fs, _config_instance, objects, _apps, managers, log, calls,
          changes, last>>

(* ------------------------------ bounds --------------------------------- *)

\* number of calls into the code (get_config, get_logging_config,
\* FirebaseStateManager()) in one behaviour
MaxCalls == 3

\* number of changes made to the environment variables and to the filesystem
\* from outside the code in one behaviour
MaxChanges == 1

(* --------------------------- environment ------------------------------- *)

\* os.getenv(var) is None
Unset == "<unset>"

\* _config_instance: Optional[AMLTFConfig] = None; objects are named by
\* their position in `objects`, 0 is None
None == 0

NoError == "<none>"

GAC == "GOOGLE_APPLICATION_CREDENTIALS"
PID == "FIREBASE_PROJECT_ID"

EnvVars == {GAC, PID}

\* the paths the code may look at: a credential file, and the two
\* directories of AMLTFConfig.__init__ (which may also be named as the
\* credential path)
Paths == {"creds.json", "data/features", "logs"}

\* what is at a path: nothing, a directory, or something that is not a
\* directory
EntryKinds == {"absent", "dir", "file"}

\* the filesystems considered: the credential file is there or not; a
\* credential path that names a directory is the case GAC = "logs"
FsStates == {f \in [Paths -> EntryKinds] : f["creds.json"] # "dir"}

\* values the process environment may hold
GACValues == {Unset, "", "creds.json", "logs"}
PIDValues == {Unset, "", "my-project"}

Truthy(v) == v # Unset /\ v # ""

\* os.getenv(var, default)
getenv(e, var, default) == IF e[var] = Unset THEN default ELSE e[var]

\* os.path.exists(path); the empty path never exists
exists(f, path) == path \in DOMAIN f /\ f[path] # "absent"

LogRec(level, logger, msg, arg) ==
    [level |-> level, logger |-> logger, msg |-> msg, arg |-> arg]

ConfigLogger == "amltf_core.config"
StateLogger == "amltf_core.firebase_state"

(* ----------------------------- config.py ------------------------------- *)

\* validate without the os.path.exists test
validate_always(self, f) == [ok |-> TRUE, logs |-> <<>>]

\* FirebaseConfig.validate
validate(self, f) ==
    IF ~exists(f, self.credentials_path)
    THEN [ok |-> FALSE,
          logs |-> <<LogRec("ERROR", ConfigLogger,
                            "Firebase credentials not found",
                            self.credentials_path)>>]
    ELSE [ok |-> TRUE, logs |-> <<>>]

\* DataSourceConfig()
DataSourceConfig ==
    [ccxt_timeout |-> 30000, max_retries |-> 3, rate_limit_delay |-> "1.0"]

required_vars == <<GAC>>

\* _validate_environment testing `os.getenv(var) is None` instead of
\* `not os.getenv(var)`
_validate_environment_isNone(e) ==
    LET IsMissing(var) == e[var] = Unset
        missing == SelectSeq(required_vars, IsMissing)
    IN  IF missing # <<>>
        THEN [raised |-> "EnvironmentError",
              logs |-> <<LogRec("CRITICAL", ConfigLogger,
                                "Missing environment variables", missing[1])>>]
        ELSE [raised |-> NoError,
              logs |-> <<LogRec("INFO", ConfigLogger,
                                "Environment validation passed", "")>>]

\* AMLTFConfig._validate_environment
_validate_environment(e) ==
    LET IsMissing(var) == ~Truthy(e[var])
        missing == SelectSeq(required_vars, IsMissing)
    IN  IF missing # <<>>
        THEN [raised |-> "EnvironmentError",
              logs |-> <<LogRec("CRITICAL", ConfigLogger,
                                "Missing environment variables", missing[1])>>]
        ELSE [raised |-> NoError,
              logs |-> <<LogRec("INFO", ConfigLogger,
                                "Environment validation passed", "")>>]

\* _load_firebase_config with `os.getenv(...) or 'amltf-production'`
_load_firebase_config_orDefault(e, f) ==
    LET creds_path == getenv(e, GAC, "")
        project_id == IF Truthy(e[PID]) THEN e[PID] ELSE "amltf-production"
        config == [project_id |-> project_id, credentials_path |-> creds_path]
        v == validate(config, f)
    IN  IF ~v.ok
        THEN [raised |-> "RuntimeError", config |-> config, logs |-> v.logs]
        ELSE [raised |-> NoError, config |-> config,
              logs |-> v.logs \o
                       <<LogRec("INFO", ConfigLogger,
                                "Firebase configured for project", project_id)>>]

\* AMLTFConfig._load_firebase_config
_load_firebase_config(e, f) ==
    LET creds_path == getenv(e, GAC, "")
        project_id == getenv(e, PID, "amltf-production")
        config == [project_id |-> project_id, credentials_path |-> creds_path]
        v == validate(config, f)
    IN  IF ~v.ok
        THEN [raised |-> "RuntimeError", config |-> config, logs |-> v.logs]
        ELSE [raised |-> NoError, config |-> config,
              logs |-> v.logs \o
                       <<LogRec("INFO", ConfigLogger,
                                "Firebase configured for project", project_id)>>]

\* os.makedirs(path) without exist_ok
makedirs_noExistOk(f, path) ==
    CASE f[path] = "absent" -> [raised |-> NoError,
                                fs |-> [f EXCEPT ![path] = "dir"]]
      [] OTHER              -> [raised |-> "FileExistsError", fs |-> f]

\* os.makedirs(path, exist_ok=True)
makedirs(f, path) ==
    CASE f[path] = "absent" -> [raised |-> NoError,
                                fs |-> [f EXCEPT ![path] = "dir"]]
      [] f[path] = "dir"    -> [raised |-> NoError, fs |-> f]
      [] OTHER              -> [raised |-> "FileExistsError", fs |-> f]

\* stands for the object of a constructor run that raised, which no caller
\* receives
NoConfig ==
    [firebase |-> [project_id |-> "", credentials_path |-> ""],
     data_sources |-> DataSourceConfig,
     feature_store_path |-> ""]

\* AMLTFConfig.__init__ lines 44-50, after _validate_environment (ve) has
\* returned and with the outcome lf of _load_firebase_config
Construct(ve, lf, f) ==
    LET self == [firebase |-> lf.config,
                 data_sources |-> DataSourceConfig,
                 feature_store_path |-> "data/features"]
        m1 == makedirs(f, self.feature_store_path)
        m2 == makedirs(m1.fs, "logs")
    IN  IF lf.raised # NoError
        THEN [raised |-> lf.raised, raisedIn |-> "_load_firebase_config",
              self |-> NoConfig, fs |-> f, logs |-> ve.logs \o lf.logs]
        ELSE IF m1.raised # NoError
        THEN [raised |-> m1.raised, raisedIn |-> "makedirs",
              self |-> NoConfig, fs |-> m1.fs, logs |-> ve.logs \o lf.logs]
        ELSE IF m2.raised # NoError
        THEN [raised |-> m2.raised, raisedIn |-> "makedirs",
              self |-> NoConfig, fs |-> m2.fs, logs |-> ve.logs \o lf.logs]
        ELSE [raised |-> NoError, raisedIn |-> NoError,
              self |-> self, fs |-> m2.fs, logs |-> ve.logs \o lf.logs]

\* AMLTFConfig.__init__ from the outcome ve of _validate_environment
InitFrom(ve, e, f) ==
    IF ve.raised # NoError
    THEN [raised |-> ve.raised, raisedIn |-> "_validate_environment",
          self |-> NoConfig, fs |-> f, logs |-> ve.logs]
    ELSE Construct(ve, _load_firebase_config(e, f), f)

\* the constructor with the directories made before the environment is
\* validated
DirsFirst(m1, m2, e) ==
    IF m1.raised # NoError
    THEN [raised |-> m1.raised, raisedIn |-> "makedirs",
          self |-> NoConfig, fs |-> m1.fs, logs |-> <<>>]
    ELSE IF m2.raised # NoError
    THEN [raised |-> m2.raised, raisedIn |-> "makedirs",
          self |-> NoConfig, fs |-> m2.fs, logs |-> <<>>]
    ELSE InitFrom(_validate_environment(e), e, m2.fs)

AMLTFConfig__init___dirsFirst(e, f) ==
    DirsFirst(makedirs(f, "data/features"),
              makedirs(makedirs(f, "data/features").fs, "logs"), e)

\* AMLTFConfig.__init__: the outcome of one run of the constructor
AMLTFConfig__init__(e, f) == InitFrom(_validate_environment(e), e, f)

\* get_config() line 116: bind the singleton to the object of the
\* constructor run c, unless that run raised
Bind(c, inst, objs) ==
    IF c.raised # NoError
    THEN [raised |-> c.raised, raisedIn |-> c.raisedIn, ctor |-> TRUE,
          value |-> None, inst |-> inst, objs |-> objs,
          fs |-> c.fs, logs |-> c.logs]
    ELSE [raised |-> NoError, raisedIn |-> NoError, ctor |-> TRUE,
          value |-> Len(objs) + 1, inst |-> Len(objs) + 1,
          objs |-> Append(objs, c.self),
          fs |-> c.fs, logs |-> c.logs]

\* the singleton bound before the constructor has finished, so that a
\* constructor that raises leaves it set
BindFirst(c, inst, objs) ==
    [raised |-> c.raised, raisedIn |-> c.raisedIn, ctor |-> TRUE,
     value |-> IF c.raised # NoError THEN None ELSE Len(objs) + 1,
     inst |-> Len(objs) + 1, objs |-> Append(objs, c.self),
     fs |-> c.fs, logs |-> c.logs]

\* get_config() lines 115-117 when the singleton is set
Existing(inst, objs, f) ==
    [raised |-> NoError, raisedIn |-> NoError, ctor |-> FALSE,
     value |-> inst, inst |-> inst, objs |-> objs,
     fs |-> f, logs |-> <<>>]

\* get_config without the `is None` test: every call constructs
get_config_noCheck(inst, objs, e, f) ==
    Bind(AMLTFConfig__init__(e, f), inst, objs)

\* get_config that refreshes the Firebase settings of the existing instance
\* from the environment on every call
get_config_reload(inst, objs, e, f) ==
    IF inst = None
    THEN Bind(AMLTFConfig__init__(e, f), inst, objs)
    ELSE Existing(inst,
                  [objs EXCEPT ![inst].firebase =
                                   _load_firebase_config(e, f).config],
                  f)

get_config_bindFirst(inst, objs, e, f) ==
    IF inst = None
    THEN BindFirst(AMLTFConfig__init__(e, f), inst, objs)
    ELSE Existing(inst, objs, f)

\* get_config(): the outcome of one call in the state (inst, objs, e, f)
get_config(inst, objs, e, f) ==
    IF inst = None
    THEN Bind(AMLTFConfig__init__(e, f), inst, objs)
    ELSE Existing(inst, objs, f)

\* AMLTFConfig.get_logging_config
get_logging_config(self) ==
    [version |-> 1,
     disable_existing_loggers |-> FALSE,
     handlers |-> [console |-> [class |-> "logging.StreamHandler",
                                level |-> "INFO"],
                   file |-> [class |-> "logging.FileHandler",
                             filename |-> "logs/amltf.log",
                             level |-> "DEBUG"]],
     root |-> [handlers |-> <<"console", "file">>, level |-> "INFO"]]

(* -------------------------- firebase_state.py -------------------------- *)

required_collections ==
    <<"market_data", "trading_strategies", "model_performance",
      "system_metrics", "feature_store">>

\* one entry of the record of what a call did: the step and the exception
\* it raised (NoError when it returned)
Step(name, exc) == [step |-> name, exc |-> exc]

\* what the backend answers during one construction: the first call into
\* the library that fails ("none" when every call succeeds).  Certificate
\* stands for a credential file whose content is not a certificate.
Backends ==
    {"none", "Certificate", "initialize_app", "client"}
        \cup {required_collections[i] : i \in 1..Len(required_collections)}

IsFile(f, path) == path \in DOMAIN f /\ f[path] = "file"

DefaultApp(cfg) ==
    [name |-> "[DEFAULT]", projectId |-> cfg.firebase.project_id,
     cred |-> cfg.firebase.credentials_path]

\* the app opened on every construction, whether or not one is registered
OpenApp_always(cfg, f, apps, b) ==
    IF b = "Certificate" \/ ~IsFile(f, cfg.firebase.credentials_path)
    THEN [exc |-> "CertificateError",
          steps |-> <<Step("Certificate", "CertificateError")>>,
          apps |-> apps]
    ELSE IF b = "initialize_app"
    THEN [exc |-> "InitializeAppError",
          steps |-> <<Step("Certificate", NoError),
                      Step("initialize_app", "InitializeAppError")>>,
          apps |-> apps]
    ELSE [exc |-> NoError,
          steps |-> <<Step("Certificate", NoError),
                      Step("initialize_app", NoError)>>,
          apps |-> apps \cup {DefaultApp(cfg)}]

\* FirebaseStateManager.__init__, lines 34-38: open the app unless one is
\* registered.  The exceptions of the library are named after the call that
\* raises them.
OpenApp(cfg, f, apps, b) ==
    IF apps # {}
    THEN [exc |-> NoError, steps |-> <<>>, apps |-> apps]
    ELSE IF b = "Certificate" \/ ~IsFile(f, cfg.firebase.credentials_path)
    THEN [exc |-> "CertificateError",
          steps |-> <<Step("Certificate", "CertificateError")>>,
          apps |-> apps]
    ELSE IF b = "initialize_app"
    THEN [exc |-> "InitializeAppError",
          steps |-> <<Step("Certificate", NoError),
                      Step("initialize_app", "InitializeAppError")>>,
          apps |-> apps]
    ELSE [exc |-> NoError,
          steps |-> <<Step("Certificate", NoError),
                      Step("initialize_app", NoError)>>,
          apps |-> apps \cup {DefaultApp(cfg)}]

\* firestore.client()
Client(b) ==
    IF b = "client"
    THEN [exc |-> "ClientError", steps |-> <<Step("client", "ClientError")>>]
    ELSE [exc |-> NoError, steps |-> <<Step("client", NoError)>>]

\* FirebaseStateManager._initialize_collections: the collections are
\* accessed in the order of the list; the first access that fails ends the
\* loop with its exception
_initialize_collections(b) ==
    LET Fails(i) == required_collections[i] = b
        failAt == IF \E i \in 1..Len(required_collections) : Fails(i)
                  THEN CHOOSE i \in 1..Len(required_collections) : Fails(i)
                  ELSE 0
        n == IF failAt = 0 THEN Len(required_collections) ELSE failAt
    IN  [exc |-> IF failAt = 0 THEN NoError ELSE "CollectionError",
         steps |-> [i \in 1..n |->
                      Step(required_collections[i],
                           IF i = failAt THEN "CollectionError"
                                         ELSE NoError)]]

\* the try block of FirebaseStateManager.__init__ (lines 33-43) from the
\* outcomes of its three parts: the first that raised ends it
TrySeq(a, c, i) ==
    IF a.exc # NoError
    THEN [exc |-> a.exc, steps |-> a.steps, apps |-> a.apps, logs |-> <<>>]
    ELSE IF c.exc # NoError
    THEN [exc |-> c.exc, steps |-> a.steps \o c.steps, apps |-> a.apps,
          logs |-> <<>>]
    ELSE IF i.exc # NoError
    THEN [exc |-> i.exc, steps |-> a.steps \o c.steps \o i.steps,
          apps |-> a.apps, logs |-> <<>>]
    ELSE [exc |-> NoError,
          steps |-> a.steps \o c.steps \o i.steps
                    \o <<Step("logger.info", NoError)>>,
          apps |-> a.apps,
          logs |-> <<LogRec("INFO", StateLogger,
                    "Firebase State Manager initialized successfully", "")>>]

\* the body of the try block of FirebaseStateManager.__init__ (lines 33-43)
TryBody(cfg, f, apps, b) ==
    TrySeq(OpenApp(cfg, f, apps, b), Client(b), _initialize_collections(b))

\* an except clause that logs the exception and does not re-raise it
ExceptClause_swallow(t) ==
    [raised |-> NoError,
     steps |-> t.steps \o <<Step("logger.error", NoError)>>,
     logs |-> t.logs \o <<LogRec("ERROR", StateLogger,
                                 "Failed to initialize Firebase", t.exc)>>]

\* the except clause of FirebaseStateManager.__init__ (lines 45-47):
\* log the exception, then re-raise it
ExceptClause(t) ==
    [raised |-> t.exc,
     steps |-> t.steps \o <<Step("logger.error", NoError)>>,
     logs |-> t.logs \o <<LogRec("ERROR", StateLogger,
                                 "Failed to initialize Firebase", t.exc)>>]

\* the outcome of a construction whose get_config() returned (g) and whose
\* try block raised t.exc, handled by the except clause (x)
Raised(g, t, x) ==
    [raised |-> x.raised, raisedIn |-> t.steps[Len(t.steps)].step,
     ctor |-> g.ctor, value |-> g.value, inst |-> g.inst, objs |-> g.objs,
     fs |-> g.fs, apps |-> t.apps, logs |-> g.logs \o x.logs,
     steps |-> <<Step("get_config", NoError)>> \o x.steps, built |-> FALSE]

\* the outcome of a construction from the outcome g of get_config() and
\* the outcome t of the try block
Finish(g, t) ==
    IF t.exc # NoError
    THEN Raised(g, t, ExceptClause(t))
    ELSE [raised |-> NoError, raisedIn |-> NoError,
          ctor |-> g.ctor, value |-> g.value, inst |-> g.inst,
          objs |-> g.objs, fs |-> g.fs, apps |-> t.apps,
          logs |-> g.logs \o t.logs,
          steps |-> <<Step("get_config", NoError)>> \o t.steps,
          built |-> TRUE]

\* FirebaseStateManager.__init__ after line 30, g the outcome of get_config():
\* its exception is outside the try block and leaves the constructor as is
AfterConfig(g, apps, b) ==
    IF g.raised # NoError
    THEN [raised |-> g.raised, raisedIn |-> g.raisedIn, ctor |-> g.ctor,
          value |-> g.value, inst |-> g.inst, objs |-> g.objs,
          fs |-> g.fs, apps |-> apps, logs |-> g.logs,
          steps |-> <<Step("get_config", g.raised)>>, built |-> FALSE]
    ELSE Finish(g, TryBody(g.objs[g.value], g.fs, apps, b))

\* FirebaseStateManager.__init__: the outcome of one construction
FirebaseStateManager__init__(inst, objs, e, f, apps, b) ==
    AfterConfig(get_config(inst, objs, e, f), apps, b)

(* ------------------------------- state --------------------------------- *)

Init ==
    /\ env \in [EnvVars -> GACValues \cup PIDValues]
    /\ env[GAC] \in GACValues
    /\ env[PID] \in PIDValues
    /\ fs \in FsStates
    /\ _config_instance = None
    /\ objects = <<>>
    /\ _apps = {}
    /\ managers = <<>>
    /\ log = <<>>
    /\ calls = 0
    /\ changes = 0
    /\ last = [op |-> "start", raised |-> NoError, raisedIn |-> NoError,
               ctor |-> FALSE, value |-> None, made |-> {},
               logFrom |-> 0, steps |-> <<>>]

\* the directories a call has created
Made(before, after) == {p \in Paths : before[p] # "dir" /\ after[p] = "dir"}

\* a call of get_config() by some consumer
GetConfig ==
    /\ calls < MaxCalls
    /\ \E r \in {get_config(_config_instance, objects, env, fs)} :
           /\ _config_instance' = r.inst
           /\ objects' = r.objs
           /\ fs' = r.fs
           /\ log' = log \o r.logs
           /\ last' = [op |-> "get_config", raised |-> r.raised,
                       raisedIn |-> r.raisedIn, ctor |-> r.ctor,
                       value |-> r.value, made |-> Made(fs, r.fs),
                       logFrom |-> Len(log),
                       steps |-> <<Step("get_config", r.raised)>>]
    /\ calls' = calls + 1
    /\ UNCHANGED <<env, _apps, managers, changes>>

\* a call of get_logging_config() on the singleton by a consumer that holds it
GetLoggingConfig ==
    /\ calls < MaxCalls
    /\ _config_instance # None
    /\ get_logging_config(objects[_config_instance]).version = 1
    /\ last' = [op |-> "get_logging_config", raised |-> NoError,
                raisedIn |-> NoError, ctor |-> FALSE,
                value |-> _config_instance, made |-> {},
                logFrom |-> Len(log),
                steps |-> <<Step("get_logging_config", NoError)>>]
    /\ calls' = calls + 1
    /\ UNCHANGED <<env, fs, _config_instance, objects, _apps, managers, log,
                   changes>>

\* FirebaseStateManager()
FirebaseStateManager ==
    /\ calls < MaxCalls
    /\ \E b \in Backends :
         \E r \in {FirebaseStateManager__init__(_config_instance, objects,
                                                env, fs, _apps, b)} :
             /\ _config_instance' = r.inst
             /\ objects' = r.objs
             /\ fs' = r.fs
             /\ _apps' = r.apps
             /\ log' = log \o r.logs
             /\ managers' = IF r.built
                            THEN Append(managers,
                                   [db |-> "client",
                                    _collections_initialized |-> FALSE])
                            ELSE managers
             /\ last' = [op |-> "FirebaseStateManager", raised |-> r.raised,
                         raisedIn |-> r.raisedIn, ctor |-> r.ctor,
                         value |-> r.value, made |-> Made(fs, r.fs),
                         logFrom |-> Len(log), steps |-> r.steps]
    /\ calls' = calls + 1
    /\ UNCHANGED <<env, changes>>

External(op) ==
    last' = [op |-> op, raised |-> NoError, raisedIn |-> NoError,
             ctor |-> FALSE, value |-> None, made |-> {},
             logFrom |-> Len(log), steps |-> <<>>]

\* the process environment is changed (os.environ, by the program's user)
SetEnv ==
    /\ changes < MaxChanges
    /\ changes' = changes + 1
    /\ \E var \in EnvVars :
         \E val \in (IF var = GAC THEN GACValues ELSE PIDValues) :
            /\ val # env[var]
            /\ env' = [env EXCEPT ![var] = val]
    /\ External("setenv")
    /\ UNCHANGED <<fs, _config_instance, objects, _apps, managers, log, calls>>

\* something outside the program creates, removes or replaces an entry
FsChange ==
    /\ changes < MaxChanges
    /\ changes' = changes + 1
    /\ \E path \in Paths : \E kind \in EntryKinds :
            /\ kind # fs[path]
            /\ [fs EXCEPT ![path] = kind] \in FsStates
            /\ fs' = [fs EXCEPT ![path] = kind]
    /\ External("fschange")
    /\ UNCHANGED <<env, _config_instance, objects, _apps, managers, log, calls>>

Next ==
    \/ GetConfig
    \/ GetLoggingConfig
    \/ FirebaseStateManager
    \/ SetEnv
    \/ FsChange

Spec == Init /\ [][Next]_vars

(* ------------------------------ properties ----------------------------- *)

CallOps == {"get_config", "FirebaseStateManager"}

\* the step is a call that runs get_config(): directly, or as the first
\* statement of FirebaseStateManager.__init__
IsCallStep == calls' = calls + 1 /\ last'.op \in CallOps

IsManagerStep == calls' = calls + 1 /\ last'.op = "FirebaseStateManager"

\* the log records emitted by the call that has just been made
Emitted == SubSeq(log, last.logFrom + 1, Len(log))

Names(steps) == [i \in DOMAIN steps |-> steps[i].step]

FeatureDir == "data/features"
LogsDir == "logs"

\* the environment and the filesystem let a constructor run succeed
EnvCorrect(e, f) ==
    /\ Truthy(e[GAC])
    /\ exists(f, e[GAC])
    /\ f[FeatureDir] # "file"
    /\ f[LogsDir] # "file"

\* C1: get_config() is idempotent: once the singleton is set, every later
\* step leaves it bound to the same instance, no step runs the AMLTFConfig
\* constructor or creates another instance, and every later get_config()
\* (also the one inside FirebaseStateManager()) returns that instance.
C1_Idempotent ==
    [][_config_instance # None =>
          /\ _config_instance' = _config_instance
          /\ ~last'.ctor
          /\ Len(objects') = Len(objects)
          /\ (IsCallStep => last'.value = _config_instance)
          /\ (last'.op = "get_config" => last'.raised = NoError)]_vars

\* a repeat call of get_config() has returned the existing instance
C1_Witness ==
    /\ last.op = "get_config"
    /\ ~last.ctor
    /\ last.value # None
    /\ last.value = _config_instance
    /\ Len(objects) = 1

\* C2: with GOOGLE_APPLICATION_CREDENTIALS absent, a constructor run fails
\* with the environment error raised in _validate_environment, and it has
\* created neither data/features nor logs (the filesystem is as before).
C2_MissingVarFailsBeforeDirs ==
    [][(IsCallStep /\ _config_instance = None /\ env[GAC] = Unset) =>
          /\ last'.ctor
          /\ last'.raised = "EnvironmentError"
          /\ last'.raisedIn = "_validate_environment"
          /\ last'.value = None
          /\ last'.made = {}
          /\ fs' = fs]_vars

\* the constructor has failed on the absent variable while both directories
\* were still to be created
C2_Witness ==
    /\ last.op \in CallOps
    /\ last.ctor
    /\ last.raisedIn = "_validate_environment"
    /\ env[GAC] = Unset
    /\ fs[FeatureDir] = "absent"
    /\ fs[LogsDir] = "absent"

\* C3: with GOOGLE_APPLICATION_CREDENTIALS set to a (non-empty) path at
\* which nothing exists, a constructor run fails with the configuration
\* error (RuntimeError, not the EnvironmentError of a missing variable),
\* whatever FIREBASE_PROJECT_ID is.
C3_MissingFileFails ==
    [][(IsCallStep /\ _config_instance = None
          /\ Truthy(env[GAC]) /\ ~exists(fs, env[GAC])) =>
          /\ last'.ctor
          /\ last'.raised = "RuntimeError"
          /\ last'.raised # "EnvironmentError"
          /\ last'.raisedIn = "_load_firebase_config"
          /\ last'.value = None]_vars

\* the constructor has failed on a credential path at which nothing exists,
\* with FIREBASE_PROJECT_ID set
C3_Witness ==
    /\ last.op \in CallOps
    /\ last.ctor
    /\ last.raised = "RuntimeError"
    /\ env[GAC] = "creds.json"
    /\ fs["creds.json"] = "absent"
    /\ env[PID] = "my-project"

\* the fields of a configuration object as the environment e dictates them
Matches(cfg, e) ==
    /\ cfg.firebase.credentials_path = e[GAC]
    /\ cfg.firebase.project_id =
          (IF e[PID] = Unset THEN "amltf-production" ELSE e[PID])
    /\ cfg.data_sources.ccxt_timeout = 30000
    /\ cfg.data_sources.max_retries = 3
    /\ cfg.data_sources.rate_limit_delay = "1.0"
    /\ cfg.feature_store_path = "data/features"

\* C4: after every successful get_config() the returned object's fields
\* match the environment read at construction: a call that constructs
\* returns an object matching the environment of the call, a repeat call
\* returns the singleton with the fields it was constructed with.
C4_FieldsMatchEnvironment ==
    [][(IsCallStep /\ last'.value # None) =>
          IF last'.ctor
          THEN /\ last'.value \in DOMAIN objects'
               /\ Matches(objects'[last'.value], env)
          ELSE /\ last'.value = _config_instance
               /\ objects'[last'.value] = objects[last'.value]]_vars

\* an object has been constructed with FIREBASE_PROJECT_ID unset and carries
\* the default project id
C4_Witness ==
    /\ last.op = "get_config"
    /\ last.ctor
    /\ last.value # None
    /\ env[PID] = Unset
    /\ objects[last.value].firebase.project_id = "amltf-production"
    /\ objects[last.value].firebase.credentials_path = "creds.json"

\* C5: after every successful constructor run data/features and logs are
\* directories, and a constructor run whose validation passes succeeds when
\* the two paths are absent or already directories.
C5_DirectoriesExist ==
    [][IsCallStep =>
          /\ (last'.ctor /\ last'.value # None) =>
                (fs'[FeatureDir] = "dir" /\ fs'[LogsDir] = "dir")
          /\ (_config_instance = None /\ EnvCorrect(env, fs)) =>
                (last'.ctor /\ last'.value # None)]_vars

\* a constructor run has succeeded with both directories already there
C5_Witness ==
    /\ last.op = "get_config"
    /\ last.ctor
    /\ last.value # None
    /\ last.made = {}
    /\ fs[FeatureDir] = "dir"
    /\ fs[LogsDir] = "dir"

\* C6: the configuration is immutable after construction: no step (repeat
\* get_config(), get_logging_config(), FirebaseStateManager(), a change of
\* the environment) changes a field of an object that was handed out, nor
\* rebinds the singleton.
C6_ImmutableAfterConstruction ==
    [][/\ \A i \in DOMAIN objects :
             i \in DOMAIN objects' /\ objects'[i] = objects[i]
       /\ _config_instance # None =>
             /\ _config_instance' = _config_instance
             /\ objects'[_config_instance'] = objects[_config_instance]]_vars

\* a call was made on the singleton after the environment moved away from
\* the values it was constructed with
C6_Witness ==
    /\ last.op \in CallOps \cup {"get_logging_config"}
    /\ ~last.ctor
    /\ _config_instance # None
    /\ objects[_config_instance].firebase.credentials_path # env[GAC]

TryBlockSteps ==
    {"Certificate", "initialize_app", "client"}
        \cup {required_collections[i] : i \in DOMAIN required_collections}

CanonicalOrder(withApp) ==
    <<"get_config">>
        \o (IF withApp THEN <<"Certificate", "initialize_app">> ELSE <<>>)
        \o <<"client">> \o required_collections \o <<"logger.info">>

IsPrefix(p, q) == Len(p) <= Len(q) /\ \A i \in DOMAIN p : p[i] = q[i]

\* C8: the app is opened only when none is registered: a registered app is
\* never replaced or joined by another, a successful initialize_app happens
\* only from the empty registry, and a construction that finds an app
\* registered does not call initialize_app; the steps of every construction
\* follow the order get_config, app, client, the five collections, success
\* log, a failed one stopping at the failed step.
C8_AppReusedAndOrder ==
    [][/\ _apps # {} => _apps' = _apps
       /\ Cardinality(_apps') <= 1
       /\ IsManagerStep =>
            LET names == Names(last'.steps)
                canon == CanonicalOrder(_apps = {})
                body == IF names # <<>> /\ names[Len(names)] = "logger.error"
                        THEN SubSeq(names, 1, Len(names) - 1)
                        ELSE names
            IN  /\ IF last'.raised = NoError
                   THEN names = canon /\ Len(managers') = Len(managers) + 1
                   ELSE /\ IsPrefix(body, canon)
                        /\ Len(body) < Len(canon)
                        /\ managers' = managers
                /\ (\E i \in DOMAIN last'.steps :
                       last'.steps[i] = Step("initialize_app", NoError))
                     => (/\ _apps = {}
                         /\ _apps' = {DefaultApp(objects'[last'.value])})]_vars

\* a construction has succeeded on the app that an earlier one registered
C8_Witness ==
    /\ last.op = "FirebaseStateManager"
    /\ last.raised = NoError
    /\ _apps # {}
    /\ Names(last.steps) = CanonicalOrder(FALSE)

\* C9 as stated: a failed constructor run leaves the singleton unset and
\* has created no directory.
C9_FailureLeavesStateUnchanged ==
    (last.op \in CallOps /\ last.ctor /\ last.value = None) =>
        (_config_instance = None /\ last.made = {})

\* C9 as amended: a failed constructor run leaves the singleton unset and
\* hands out no object; when it failed in _validate_environment or in
\* _load_firebase_config the filesystem is unchanged (a failure of
\* os.makedirs may leave data/features created); while the singleton is
\* unset every get_config() runs the constructor again, and succeeds when
\* the environment and the filesystem allow it.
C9_FailureNotCached ==
    [][(IsCallStep /\ _config_instance = None) =>
          /\ last'.ctor
          /\ last'.value = None =>
                /\ _config_instance' = None
                /\ objects' = objects
                /\ last'.raised # NoError
                /\ last'.raisedIn \in {"_validate_environment",
                                       "_load_firebase_config"}
                      => (fs' = fs /\ last'.made = {})
          /\ EnvCorrect(env, fs) =>
                (last'.value # None /\ _config_instance' = last'.value)]_vars

\* a constructor run has succeeded after an earlier one had failed
C9_Witness ==
    /\ last.op \in CallOps
    /\ last.ctor
    /\ last.value # None
    /\ _config_instance = last.value
    /\ \E i \in 1..last.logFrom :
          /\ log[i].logger = ConfigLogger
          /\ log[i].level \in {"CRITICAL", "ERROR"}

\* C10: GOOGLE_APPLICATION_CREDENTIALS set to the empty string fails a
\* constructor run exactly as the absent variable does, with the environment
\* error of _validate_environment and never the configuration error; a run
\* that gets past _validate_environment has a non-empty value.
C10_EmptyIsMissing ==
    [][(IsCallStep /\ _config_instance = None) =>
          /\ env[GAC] = "" =>
                /\ last'.raised = "EnvironmentError"
                /\ last'.raisedIn = "_validate_environment"
                /\ fs' = fs
                /\ SubSeq(log', Len(log) + 1, Len(log')) =
                      _validate_environment(
                          [env EXCEPT ![GAC] = Unset]).logs
          /\ last'.raisedIn # "_validate_environment" =>
                (env[GAC] # "" /\ env[GAC] # Unset)]_vars

\* the constructor has failed on the empty variable
C10_Witness ==
    /\ last.op \in CallOps
    /\ last.ctor
    /\ env[GAC] = ""
    /\ last.raised = "EnvironmentError"
====
